---- MODULE Spec2Model ----
(***************************************************************************)
(* Landmark identification of the processLandmarkImage lambda:             *)
(* normalizeLandmarkName, calculateSimilarity, isLandmarkRelatedLabel and  *)
(* the passes of identifyLandmark over the labels Rekognition returned.    *)
(*                                                                         *)
(* A JavaScript string is a sequence of one-character strings; null is the *)
(* value Null.  A number with a fractional part (a similarity score) is a  *)
(* reduced fraction [num, den].  A field a result object does not have     *)
(* (undefined) is the empty set, a field it has is the singleton of its    *)
(* value.                                                                  *)
(***************************************************************************)
EXTENDS Integers, Sequences, FiniteSets, TLC

VARIABLES labels, pc, result,
          arg1, arg2, normalized1, normalized2, similarity,
          statusCode, lookupKeys

(* the arguments, the locals and the value of a call of calculateSimilarity *)
strVars == <<arg1, arg2, normalized1, normalized2, similarity>>

(* what the handler answers and the keys it reads the landmark table with *)
handlerVars == <<statusCode, lookupKeys>>

vars == <<labels, pc, result, strVars, handlerVars>>

----------------------------------------------------------------------------
(* Strings *)

Null == <<"null">>

UpperCase == <<"A","B","C","D","E","F","G","H","I","J","K","L","M",
               "N","O","P","Q","R","S","T","U","V","W","X","Y","Z">>

LowerCase == <<"a","b","c","d","e","f","g","h","i","j","k","l","m",
               "n","o","p","q","r","s","t","u","v","w","x","y","z">>

Digits == {"0","1","2","3","4","5","6","7","8","9"}

(* \s of a regular expression, as far as label text uses it *)
WhiteSpace == {" ", "\t", "\n"}

(* \w of a regular expression: [A-Za-z0-9_] *)
WordChars == {UpperCase[i] : i \in 1..26} \cup {LowerCase[i] : i \in 1..26}
               \cup Digits \cup {"_"}

toLowerCaseChar(c) ==
  IF \E i \in 1..26 : UpperCase[i] = c
    THEN LowerCase[CHOOSE i \in 1..26 : UpperCase[i] = c]
    ELSE c

toLowerCase(s) == [i \in 1..Len(s) |-> toLowerCaseChar(s[i])]

(* s.replace(/\s+/, '') : without the g flag only the first run of        *)
(* whitespace goes                                                         *)
removeWhiteSpace_FirstRun(s) ==
  LET spaces == {i \in 1..Len(s) : s[i] \in WhiteSpace}
  IN  IF spaces = {}
        THEN s
        ELSE LET first == CHOOSE i \in spaces : \A j \in spaces : i <= j
                 last == CHOOSE j \in first..Len(s) :
                           /\ \A k \in first..j : k \in spaces
                           /\ j + 1 \notin spaces
             IN  SubSeq(s, 1, first - 1) \o SubSeq(s, last + 1, Len(s))

(* s.replace(/\s+/g, '') *)
removeWhiteSpace(s) == SelectSeq(s, LAMBDA c : c \notin WhiteSpace)

(* !name : null, undefined and the empty string are falsy *)
isFalsy(name) == name = Null \/ name = <<>>

(* normalizeLandmarkName with name.toLowerCase().trim() : only the         *)
(* whitespace at the two ends goes                                         *)
normalizeLandmarkName_Trim(name) ==
  IF isFalsy(name)
    THEN <<>>
    ELSE LET lower == toLowerCase(name)
             letters == {i \in 1..Len(lower) : lower[i] \notin WhiteSpace}
         IN  IF letters = {}
               THEN <<>>
               ELSE SubSeq(lower,
                      CHOOSE i \in letters : \A j \in letters : i <= j,
                      CHOOSE i \in letters : \A j \in letters : i >= j)

normalizeLandmarkName(name) ==
  IF isFalsy(name) THEN <<>> ELSE removeWhiteSpace(toLowerCase(name))

(* normalizeLandmarkName without its guard *)
normalizeThrows_NoGuard(name) == name = Null

(* name.toLowerCase() raises a TypeError on null; the guard of             *)
(* normalizeLandmarkName returns before it is reached                      *)
normalizeThrows(name) == ~isFalsy(name) /\ name = Null

(* F applied to the value of v: v is computed once, however often F reads *)
(* its argument                                                            *)
Bind(v, F(_)) == CHOOSE y \in {F(x) : x \in {v}} : TRUE

(* the function f, with its values computed where it is defined *)
Tabulated(f) == f @@ <<>>

(* the element of a singleton *)
TheOne(S) == CHOOSE x \in S : TRUE

(* includes that finds no empty string *)
includes_NonEmpty(s, t) ==
  /\ t # <<>>
  /\ \E i \in 0..(Len(s) - Len(t)) : SubSeq(s, i + 1, i + Len(t)) = t

(* s.includes(t) for strings *)
includes(s, t) ==
  \E i \in 0..(Len(s) - Len(t)) : SubSeq(s, i + 1, i + Len(t)) = t

(* array.includes(x) : strict equality with an element *)
arrayIncludes(arr, x) == \E i \in 1..Len(arr) : arr[i] = x

(* s.split(/\W+/).filter(word => word.length > 2) : only the runs of more *)
(* than two word characters                                                *)
RECURSIVE splitWords_LongOnly(_, _, _)
splitWords_LongOnly(s, i, word) ==
  IF i > Len(s)
    THEN IF Len(word) <= 2 THEN <<>> ELSE <<word>>
    ELSE IF s[i] \in WordChars
      THEN splitWords_LongOnly(s, i + 1, Append(word, s[i]))
      ELSE IF Len(word) <= 2
        THEN splitWords_LongOnly(s, i + 1, <<>>)
        ELSE <<word>> \o splitWords_LongOnly(s, i + 1, <<>>)

(* s.split(/\W+/).filter(word => word.length > 0) : the maximal runs of    *)
(* word characters, in order                                               *)
RECURSIVE splitWords(_, _, _)
splitWords(s, i, word) ==
  IF i > Len(s)
    THEN IF word = <<>> THEN <<>> ELSE <<word>>
    ELSE IF s[i] \in WordChars
      THEN splitWords(s, i + 1, Append(word, s[i]))
      ELSE IF word = <<>>
        THEN splitWords(s, i + 1, <<>>)
        ELSE <<word>> \o splitWords(s, i + 1, <<>>)

----------------------------------------------------------------------------
(* The labels of a request *)

MaxLabels == 3

(* label names: known to the registry, variants of known names, and names  *)
(* it does not know                                                        *)
EiffelTower == <<"E","i","f","f","e","l"," ","T","o","w","e","r">>

EiffelTowerVariant == <<" ","E","I","F","F","E","L"," "," ","t","o","w","e","r">>

Colosseum == <<"C","o","l","o","s","s","e","u","m">>

TourEiffel == <<"T","o","u","r"," ","E","i","f","f","e","l">>

TourEiffelVariant == <<"t","o","u","r"," ","e","i","f","f","e","l">>

EmptyName == <<>>

Dog == <<"D","o","g">>

Tower == <<"T","o","w","e","r">>

AncientRuins == <<"A","n","c","i","e","n","t"," ","R","u","i","n","s">>

HistoricalSite == <<"H","i","s","t","o","r","i","c","a","l"," ","S","i","t","e">>

ParisTower == <<"P","a","r","i","s"," ","T","o","w","e","r">>

Architecture == <<"A","r","c","h","i","t","e","c","t","u","r","e">>

MtFuji == <<"M","t","."," ","F","u","j","i">>

Label(name, confidence) == [Name |-> name, Confidence |-> confidence]

LabelPool ==
  { Label(EiffelTower, 80), Label(EiffelTower, 60),
    Label(EiffelTowerVariant, 96), Label(Colosseum, 90),
    Label(TourEiffel, 80), Label(TourEiffelVariant, 80), Label(EmptyName, 80),
    Label(Null, 90), Label(Dog, 99), Label(Tower, 95),
    Label(AncientRuins, 90), Label(HistoricalSite, 88), Label(HistoricalSite, 90),
    Label(ParisTower, 75), Label(Architecture, 90), Label(MtFuji, 80) }

LabelNames == {l.Name : l \in LabelPool}

LabelSets == UNION {[1..n -> LabelPool] : n \in 0..MaxLabels}

----------------------------------------------------------------------------
(* Numbers *)

(* the first argument whatever the second *)
Min_First(a, b) == a

Min(a, b) == IF a <= b THEN a ELSE b

Max(a, b) == IF a >= b THEN a ELSE b

RECURSIVE GCD(_, _)
GCD(a, b) == IF b = 0 THEN a ELSE Bind(a % b, LAMBDA r : GCD(b, r))

(* the number n / d, d > 0 *)
Frac(n, d) ==
  Bind(GCD(n, d), LAMBDA g : [num |-> n \div g, den |-> d \div g])

Zero == Frac(0, 1)

One == Frac(1, 1)

FracLess(a, b) == a.num * b.den < b.num * a.den

FracLeq(a, b) == a.num * b.den <= b.num * a.den

FracMax(a, b) == IF FracLess(a, b) THEN b ELSE a

FracMin(a, b) == IF FracLess(b, a) THEN b ELSE a

FracAdd(a, b) == Frac(a.num * b.den + b.num * a.den, a.den * b.den)

FracMul(a, b) == Frac(a.num * b.num, a.den * b.den)

----------------------------------------------------------------------------
(* calculateSimilarity *)

(* the inner loop over words2 for one word1: some word2 longer than two    *)
(* characters equals, contains or is contained in word1                    *)
wordMatches(word1, words2) ==
  \E j \in 1..Len(words2) :
    /\ Len(words2[j]) > 2
    /\ \/ word1 = words2[j]
       \/ includes(word1, words2[j])
       \/ includes(words2[j], word1)

(* matchCount after the loop over words1 *)
matchCount(words1, words2) ==
  Cardinality({i \in 1..Len(words1) :
                 Len(words1[i]) > 2 /\ wordMatches(words1[i], words2)})

(* calculateSimilarity with the containment score the wrong way up *)
calculateSimilarity_RatioSwapped(str1, str2) ==
  LET normalizedStr1 == normalizeLandmarkName(str1)
      normalizedStr2 == normalizeLandmarkName(str2)
      words1 == splitWords(normalizedStr1, 1, <<>>)
      words2 == splitWords(normalizedStr2, 1, <<>>)
      overlapScore == Frac(matchCount(words1, words2),
                           Max(Len(words1), Len(words2)))
  IN  IF normalizedStr1 = normalizedStr2
        THEN One
        ELSE IF \/ includes(normalizedStr1, normalizedStr2)
                \/ includes(normalizedStr2, normalizedStr1)
          THEN FracMax(Frac(7, 10),
                       Frac(Max(Len(normalizedStr1), Len(normalizedStr2)),
                            Min(Len(normalizedStr1), Len(normalizedStr2))))
          ELSE IF (Len(words1) > 1 \/ Len(words2) > 1)
                    /\ FracLess(Zero, overlapScore)
            THEN FracMin(Frac(9, 10),
                         FracAdd(Frac(1, 2), FracMul(overlapScore, Frac(2, 5))))
            ELSE Zero

calculateSimilarity(str1, str2) ==
  LET normalizedStr1 == normalizeLandmarkName(str1)
      normalizedStr2 == normalizeLandmarkName(str2)
      words1 == splitWords(normalizedStr1, 1, <<>>)
      words2 == splitWords(normalizedStr2, 1, <<>>)
      overlapScore == Frac(matchCount(words1, words2),
                           Max(Len(words1), Len(words2)))
  IN  IF normalizedStr1 = normalizedStr2
        THEN One
        ELSE IF \/ includes(normalizedStr1, normalizedStr2)
                \/ includes(normalizedStr2, normalizedStr1)
          THEN FracMax(Frac(7, 10),
                       Frac(Min(Len(normalizedStr1), Len(normalizedStr2)),
                            Max(Len(normalizedStr1), Len(normalizedStr2))))
          ELSE IF (Len(words1) > 1 \/ Len(words2) > 1)
                    /\ FracLess(Zero, overlapScore)
            THEN FracMin(Frac(9, 10),
                         FracAdd(Frac(1, 2), FracMul(overlapScore, Frac(2, 5))))
            ELSE Zero

----------------------------------------------------------------------------
(* isLandmarkRelatedLabel *)

landmarkKeywords ==
  <<
    <<"l","a","n","d","m","a","r","k">>,
    <<"m","o","n","u","m","e","n","t">>,
    <<"t","o","w","e","r">>,
    <<"s","t","a","t","u","e">>,
    <<"t","e","m","p","l","e">>,
    <<"p","a","l","a","c","e">>,
    <<"c","a","s","t","l","e">>,
    <<"c","a","t","h","e","d","r","a","l">>,
    <<"c","h","u","r","c","h">>,
    <<"m","o","s","q","u","e">>,
    <<"p","y","r","a","m","i","d">>,
    <<"r","u","i","n","s">>,
    <<"h","i","s","t","o","r","i","c","a","l">>,
    <<"h","e","r","i","t","a","g","e">>,
    <<"a","n","c","i","e","n","t">>,
    <<"a","r","c","h","i","t","e","c","t","u","r","e">>,
    <<"w","o","n","d","e","r">>,
    <<"f","a","m","o","u","s">>,
    <<"t","o","u","r","i","s","t">>,
    <<"a","t","t","r","a","c","t","i","o","n">>,
    <<"s","i","t","e">>,
    <<"b","u","i","l","d","i","n","g">>,
    <<"s","t","r","u","c","t","u","r","e">>
  >>


isLandmarkRelatedLabel(label) ==
  LET normalizedLabel == normalizeLandmarkName(label)
  IN  \E k \in 1..Len(landmarkKeywords) :
        includes(normalizedLabel, landmarkKeywords[k])

(* the values of isLandmarkRelatedLabel for the label names of the model,  *)
(* computed once                                                           *)
isLandmarkRelatedLabelOf ==
  Tabulated([name \in LabelNames |-> isLandmarkRelatedLabel(name)])

----------------------------------------------------------------------------
(* identifyLandmark: the registry *)

landmarkDefinitions ==
  <<
    (* Eiffel Tower *)
    [ primaryName |-> <<"E","i","f","f","e","l"," ","T","o","w","e","r">>,
      alternativeNames |-> <<
          <<"T","o","u","r"," ","E","i","f","f","e","l">>,
          <<"I","r","o","n"," ","L","a","d","y">>,
          <<"L","a"," ","T","o","u","r"," ","E","i","f","f","e","l">>
        >>,
      keywords |-> <<
          <<"p","a","r","i","s">>,
          <<"f","r","a","n","c","e">>,
          <<"i","r","o","n">>,
          <<"t","o","w","e","r">>
        >> ],
    (* Statue of Liberty *)
    [ primaryName |-> <<"S","t","a","t","u","e"," ","o","f"," ","L","i","b","e","r","t","y">>,
      alternativeNames |-> <<
          <<"L","i","b","e","r","t","y"," ","E","n","l","i","g","h","t","e","n","i","n","g"," ","t","h","e"," ","W","o","r","l","d">>,
          <<"L","a","d","y"," ","L","i","b","e","r","t","y">>
        >>,
      keywords |-> <<
          <<"n","e","w"," ","y","o","r","k">>,
          <<"l","i","b","e","r","t","y"," ","i","s","l","a","n","d">>,
          <<"u","s","a">>,
          <<"a","m","e","r","i","c","a">>
        >> ],
    (* Colosseum *)
    [ primaryName |-> <<"C","o","l","o","s","s","e","u","m">>,
      alternativeNames |-> <<
          <<"C","o","l","i","s","e","u","m">>,
          <<"F","l","a","v","i","a","n"," ","A","m","p","h","i","t","h","e","a","t","r","e">>,
          <<"R","o","m","a","n"," ","C","o","l","o","s","s","e","u","m">>
        >>,
      keywords |-> <<
          <<"r","o","m","e">>,
          <<"i","t","a","l","y">>,
          <<"a","r","e","n","a">>,
          <<"a","m","p","h","i","t","h","e","a","t","e","r">>,
          <<"g","l","a","d","i","a","t","o","r">>
        >> ],
    (* Great Wall of China *)
    [ primaryName |-> <<"G","r","e","a","t"," ","W","a","l","l"," ","o","f"," ","C","h","i","n","a">>,
      alternativeNames |-> <<
          <<"G","r","e","a","t"," ","W","a","l","l">>,
          <<"C","h","i","n","e","s","e"," ","W","a","l","l">>
        >>,
      keywords |-> <<
          <<"c","h","i","n","a">>,
          <<"w","a","l","l">>,
          <<"b","e","i","j","i","n","g">>,
          <<"d","e","f","e","n","s","e">>
        >> ],
    (* Machu Picchu *)
    [ primaryName |-> <<"M","a","c","h","u"," ","P","i","c","c","h","u">>,
      alternativeNames |-> <<
          <<"L","o","s","t"," ","C","i","t","y"," ","o","f"," ","t","h","e"," ","I","n","c","a","s">>
        >>,
      keywords |-> <<
          <<"p","e","r","u">>,
          <<"i","n","c","a">>,
          <<"r","u","i","n","s">>,
          <<"a","n","d","e","s">>
        >> ],
    (* Pyramids of Giza *)
    [ primaryName |-> <<"P","y","r","a","m","i","d","s"," ","o","f"," ","G","i","z","a">>,
      alternativeNames |-> <<
          <<"G","r","e","a","t"," ","P","y","r","a","m","i","d">>,
          <<"E","g","y","p","t","i","a","n"," ","P","y","r","a","m","i","d","s">>,
          <<"P","y","r","a","m","i","d"," ","o","f"," ","K","h","u","f","u">>
        >>,
      keywords |-> <<
          <<"e","g","y","p","t">>,
          <<"p","y","r","a","m","i","d">>,
          <<"p","h","a","r","a","o","h">>,
          <<"c","a","i","r","o">>,
          <<"s","p","h","i","n","x">>
        >> ],
    (* Taj Mahal *)
    [ primaryName |-> <<"T","a","j"," ","M","a","h","a","l">>,
      alternativeNames |-> <<
          <<"C","r","o","w","n"," ","o","f"," ","P","a","l","a","c","e","s">>
        >>,
      keywords |-> <<
          <<"i","n","d","i","a">>,
          <<"a","g","r","a">>,
          <<"m","a","u","s","o","l","e","u","m">>,
          <<"m","a","r","b","l","e">>,
          <<"m","u","g","h","a","l">>
        >> ],
    (* Big Ben *)
    [ primaryName |-> <<"B","i","g"," ","B","e","n">>,
      alternativeNames |-> <<
          <<"E","l","i","z","a","b","e","t","h"," ","T","o","w","e","r">>,
          <<"C","l","o","c","k"," ","T","o","w","e","r">>,
          <<"W","e","s","t","m","i","n","s","t","e","r"," ","C","l","o","c","k">>
        >>,
      keywords |-> <<
          <<"l","o","n","d","o","n">>,
          <<"e","n","g","l","a","n","d">>,
          <<"u","k">>,
          <<"p","a","r","l","i","a","m","e","n","t">>,
          <<"w","e","s","t","m","i","n","s","t","e","r">>,
          <<"c","l","o","c","k">>
        >> ],
    (* Sydney Opera House *)
    [ primaryName |-> <<"S","y","d","n","e","y"," ","O","p","e","r","a"," ","H","o","u","s","e">>,
      alternativeNames |-> <<
          <<"O","p","e","r","a"," ","H","o","u","s","e">>
        >>,
      keywords |-> <<
          <<"s","y","d","n","e","y">>,
          <<"a","u","s","t","r","a","l","i","a">>,
          <<"h","a","r","b","o","r">>,
          <<"t","h","e","a","t","r","e">>,
          <<"c","o","n","c","e","r","t"," ","h","a","l","l">>
        >> ],
    (* Mount Fuji *)
    [ primaryName |-> <<"M","o","u","n","t"," ","F","u","j","i">>,
      alternativeNames |-> <<
          <<"F","u","j","i","s","a","n">>,
          <<"F","u","j","i","-","s","a","n">>,
          <<"F","u","j","i","y","a","m","a">>
        >>,
      keywords |-> <<
          <<"j","a","p","a","n">>,
          <<"m","o","u","n","t","a","i","n">>,
          <<"v","o","l","c","a","n","o">>,
          <<"p","e","a","k">>
        >> ]
  >>


(* the names the fourth pass does not take as the best label *)
genericTerms ==
  <<
    <<"L","a","n","d","m","a","r","k">>,
    <<"M","o","n","u","m","e","n","t">>,
    <<"A","r","c","h","i","t","e","c","t","u","r","e">>,
    <<"B","u","i","l","d","i","n","g">>,
    <<"S","t","r","u","c","t","u","r","e">>
  >>

popularDestinations ==
  [d \in 1..Len(landmarkDefinitions) |-> landmarkDefinitions[d].primaryName]

NumDefs == Len(landmarkDefinitions)

----------------------------------------------------------------------------
(* identifyLandmark: the result objects *)

(* a field the object literal does not set *)
Undefined == {}

ExactResult(label) ==
  [ isLandmark |-> TRUE,
    landmarkName |-> normalizeLandmarkName(label.Name),
    rawLandmarkName |-> {label.Name},
    matchType |-> {"exact"},
    confidence |-> {label.Confidence},
    similarityScore |-> Undefined,
    matchScore |-> Undefined ]

(* the alternative result with the label name as raw name *)
AlternativeResult_LabelName(label, landmarkDef) ==
  [ isLandmark |-> TRUE,
    landmarkName |-> normalizeLandmarkName(label.Name),
    rawLandmarkName |-> {label.Name},
    matchType |-> {"alternative"},
    confidence |-> {label.Confidence},
    similarityScore |-> Undefined,
    matchScore |-> Undefined ]

AlternativeResult(label, landmarkDef) ==
  [ isLandmark |-> TRUE,
    landmarkName |-> normalizeLandmarkName(landmarkDef.primaryName),
    rawLandmarkName |-> {landmarkDef.primaryName},
    matchType |-> {"alternative"},
    confidence |-> {label.Confidence},
    similarityScore |-> Undefined,
    matchScore |-> Undefined ]

SimilarityResult(bestMatch, bestScore, bestConfidence) ==
  [ isLandmark |-> TRUE,
    landmarkName |-> normalizeLandmarkName(bestMatch),
    rawLandmarkName |-> {bestMatch},
    matchType |-> {"similarity"},
    confidence |-> {bestConfidence},
    similarityScore |-> {bestScore},
    matchScore |-> Undefined ]

(* the keyword result without its matchType *)
KeywordResult_NoMatchType(bestLandmarkMatch, bestLabel, bestMatchScore) ==
  [ isLandmark |-> TRUE,
    landmarkName |-> normalizeLandmarkName(bestLandmarkMatch),
    rawLandmarkName |-> {bestLandmarkMatch},
    matchType |-> Undefined,
    confidence |-> {bestLabel.Confidence},
    similarityScore |-> Undefined,
    matchScore |-> {bestMatchScore} ]

KeywordResult(bestLandmarkMatch, bestLabel, bestMatchScore) ==
  [ isLandmark |-> TRUE,
    landmarkName |-> normalizeLandmarkName(bestLandmarkMatch),
    rawLandmarkName |-> {bestLandmarkMatch},
    matchType |-> {"keyword"},
    confidence |-> {bestLabel.Confidence},
    similarityScore |-> Undefined,
    matchScore |-> {bestMatchScore} ]

(* the unknown-landmark result with the label name as it came *)
UnknownResult_RawName(bestLabel) ==
  [ isLandmark |-> TRUE,
    landmarkName |-> bestLabel.Name,
    rawLandmarkName |-> {bestLabel.Name},
    matchType |-> {"unknown"},
    confidence |-> {bestLabel.Confidence},
    similarityScore |-> Undefined,
    matchScore |-> Undefined ]

UnknownResult(bestLabel) ==
  [ isLandmark |-> TRUE,
    landmarkName |-> normalizeLandmarkName(bestLabel.Name),
    rawLandmarkName |-> {bestLabel.Name},
    matchType |-> {"unknown"},
    confidence |-> {bestLabel.Confidence},
    similarityScore |-> Undefined,
    matchScore |-> Undefined ]

UnknownLandmark == <<"U","n","k","n","o","w","n"," ","L","a","n","d","m","a","r","k">>

(* the unmatched result with an empty landmarkName *)
NoLandmarkResult_EmptyName ==
  [ isLandmark |-> FALSE,
    landmarkName |-> <<>>,
    rawLandmarkName |-> Undefined,
    matchType |-> Undefined,
    confidence |-> Undefined,
    similarityScore |-> Undefined,
    matchScore |-> Undefined ]

NoLandmarkResult ==
  [ isLandmark |-> FALSE,
    landmarkName |-> UnknownLandmark,
    rawLandmarkName |-> Undefined,
    matchType |-> Undefined,
    confidence |-> Undefined,
    similarityScore |-> Undefined,
    matchScore |-> Undefined ]

(* the value of result while identifyLandmark has not returned *)
NotReturned ==
  [ isLandmark |-> FALSE,
    landmarkName |-> <<>>,
    rawLandmarkName |-> Undefined,
    matchType |-> Undefined,
    confidence |-> Undefined,
    similarityScore |-> Undefined,
    matchScore |-> Undefined ]

----------------------------------------------------------------------------
(* identifyLandmark: first pass, exact matches with primary names *)

(* the first pass with the threshold of the fourth pass *)
exactMatch_Confidence85(label) ==
  arrayIncludes(popularDestinations, label.Name) /\ label.Confidence >= 85

exactMatch(label) ==
  arrayIncludes(popularDestinations, label.Name) /\ label.Confidence >= 75

(* positions of the labels the loop of the first pass returns on *)
exactMatches(ls) == {i \in 1..Len(ls) : exactMatch(ls[i])}

(* the last element that matches: a loop that does not return at once *)
firstIndex_Last(S) == CHOOSE i \in S : \A j \in S : i >= j

firstIndex(S) == CHOOSE i \in S : \A j \in S : i <= j

----------------------------------------------------------------------------
(* identifyLandmark: second pass, matches with alternative names *)

alternativeMatch(label, landmarkDef) ==
  arrayIncludes(landmarkDef.alternativeNames, label.Name)
    /\ label.Confidence >= 75

alternativeDefs(label) ==
  {d \in 1..NumDefs : alternativeMatch(label, landmarkDefinitions[d])}

alternativeMatches(ls) == {i \in 1..Len(ls) : alternativeDefs(ls[i]) # {}}

----------------------------------------------------------------------------
(* identifyLandmark: third pass, similarity matches *)

(* similarityScore after the loop over the alternative names *)
RECURSIVE bestAltSimilarity(_, _, _, _)
bestAltSimilarity(name, alternativeNames, a, similarityScore) ==
  IF a > Len(alternativeNames)
    THEN similarityScore
    ELSE LET altSimilarityScore == calculateSimilarity(name, alternativeNames[a])
         IN  bestAltSimilarity(name, alternativeNames, a + 1,
               IF FracLess(similarityScore, altSimilarityScore)
                 THEN altSimilarityScore ELSE similarityScore)

(* the similarity with the primary name alone *)
pairSimilarity_PrimaryOnly(name, landmarkDef) ==
  calculateSimilarity(name, landmarkDef.primaryName)

pairSimilarity(name, landmarkDef) ==
  bestAltSimilarity(name, landmarkDef.alternativeNames, 1,
                    calculateSimilarity(name, landmarkDef.primaryName))

(* the values of pairSimilarity for the label names of the model and the   *)
(* definitions of the registry, computed once                              *)
pairSimilarityOf ==
  Tabulated([name \in LabelNames |->
    Tabulated([primaryName \in {landmarkDefinitions[d].primaryName : d \in 1..NumDefs} |->
      pairSimilarity(name,
        landmarkDefinitions[CHOOSE d \in 1..NumDefs :
                              landmarkDefinitions[d].primaryName = primaryName])])])

(* the iteration without the comparison with bestScore: the last pair of  *)
(* similarity 0.7 or more wins                                             *)
thirdPassStep_LastWins(best, label, landmarkDef) ==
  LET similarityScore == pairSimilarityOf[label.Name][landmarkDef.primaryName]
      combinedScore == FracMul(similarityScore, Frac(label.Confidence, 100))
  IN  IF FracLeq(Frac(7, 10), similarityScore)
        THEN [ bestMatch |-> {landmarkDef.primaryName},
               bestScore |-> combinedScore,
               bestConfidence |-> label.Confidence ]
        ELSE best

(* one iteration of the inner loop of the third pass *)
thirdPassStep(best, label, landmarkDef) ==
  LET similarityScore == pairSimilarityOf[label.Name][landmarkDef.primaryName]
      combinedScore == FracMul(similarityScore, Frac(label.Confidence, 100))
  IN  IF FracLeq(Frac(7, 10), similarityScore)
           /\ FracLess(best.bestScore, combinedScore)
        THEN [ bestMatch |-> {landmarkDef.primaryName},
               bestScore |-> combinedScore,
               bestConfidence |-> label.Confidence ]
        ELSE best

(* the loops of the third pass without the skip of labels below 70 *)
RECURSIVE thirdPassLoop_NoSkip(_, _, _, _)
thirdPassLoop_NoSkip(ls, i, d, best) ==
  IF i > Len(ls)
    THEN best
    ELSE IF d > NumDefs
      THEN thirdPassLoop_NoSkip(ls, i + 1, 1, best)
      ELSE Bind(thirdPassStep(best, ls[i], landmarkDefinitions[d]),
                LAMBDA next : thirdPassLoop_NoSkip(ls, i, d + 1, next))

(* the loops of the third pass from label i, definition d on *)
RECURSIVE thirdPassLoop(_, _, _, _)
thirdPassLoop(ls, i, d, best) ==
  IF i > Len(ls)
    THEN best
    ELSE IF ls[i].Confidence < 70 \/ d > NumDefs
      THEN thirdPassLoop(ls, i + 1, 1, best)
      ELSE Bind(thirdPassStep(best, ls[i], landmarkDefinitions[d]),
                LAMBDA next : thirdPassLoop(ls, i, d + 1, next))

thirdPass(ls) ==
  thirdPassLoop(ls, 1, 1,
    [bestMatch |-> {}, bestScore |-> Zero, bestConfidence |-> 0])

(* the third pass calls calculateSimilarity, hence normalizeLandmarkName,  *)
(* on every label of confidence 70 or more                                 *)
thirdPassThrows(ls) ==
  \E i \in 1..Len(ls) : ls[i].Confidence >= 70 /\ normalizeThrows(ls[i].Name)

----------------------------------------------------------------------------
(* identifyLandmark: fourth pass, landmark-related labels *)

(* the filter without isLandmarkRelatedLabel: every label of confidence    *)
(* >= 85                                                                   *)
landmarkLabels_AnyLabel(ls) ==
  SelectSeq(ls, LAMBDA label : label.Confidence >= 85)

landmarkLabels(ls) ==
  SelectSeq(ls, LAMBDA label :
    isLandmarkRelatedLabelOf[label.Name] /\ label.Confidence >= 85)

(* the filter without its confidence threshold *)
nonGenericLabels_AnyConfidence(ls) ==
  SelectSeq(ls, LAMBDA label : ~arrayIncludes(genericTerms, label.Name))

nonGenericLabels(ls) ==
  SelectSeq(ls, LAMBDA label :
    ~arrayIncludes(genericTerms, label.Name) /\ label.Confidence >= 75)

(* a sort that puts an element ahead of the elements of its confidence *)
RECURSIVE insertByConfidence_LaterFirst(_, _)
insertByConfidence_LaterFirst(sorted, label) ==
  IF sorted = <<>>
    THEN <<label>>
    ELSE IF Head(sorted).Confidence > label.Confidence
      THEN <<Head(sorted)>> \o insertByConfidence_LaterFirst(Tail(sorted), label)
      ELSE <<label>> \o sorted

(* arr.sort((a, b) => b.Confidence - a.Confidence) : a stable sort, by     *)
(* insertion of each element behind the elements that do not sort after it *)
RECURSIVE insertByConfidence(_, _)
insertByConfidence(sorted, label) ==
  IF sorted = <<>>
    THEN <<label>>
    ELSE IF Head(sorted).Confidence >= label.Confidence
      THEN <<Head(sorted)>> \o insertByConfidence(Tail(sorted), label)
      ELSE <<label>> \o sorted

RECURSIVE sortByConfidence(_, _, _)
sortByConfidence(arr, i, sorted) ==
  IF i > Len(arr)
    THEN sorted
    ELSE Bind(insertByConfidence(sorted, arr[i]),
              LAMBDA next : sortByConfidence(arr, i + 1, next))

bestLabelOf(ls) == sortByConfidence(nonGenericLabels(ls), 1, <<>>)[1]

keywordMatches(bestLabel, landmarkDef) ==
  LET normalizedLabel == normalizeLandmarkName(bestLabel.Name)
  IN  SelectSeq(landmarkDef.keywords, LAMBDA keyword :
        includes(normalizedLabel, normalizeLandmarkName(keyword)))

(* the iteration without the keywords of the definition *)
fourthPassStep_NameOnly(best, bestLabel, landmarkDef) ==
  LET similarityScore == calculateSimilarity(bestLabel.Name, landmarkDef.primaryName)
  IN  IF FracLess(best.bestMatchScore, similarityScore)
        THEN [ bestLandmarkMatch |-> {landmarkDef.primaryName},
               bestMatchScore |-> similarityScore ]
        ELSE best

(* one iteration of the loop over the definitions of the fourth pass *)
fourthPassStep(best, bestLabel, landmarkDef) ==
  LET similarityScore == calculateSimilarity(bestLabel.Name, landmarkDef.primaryName)
      afterName ==
        IF FracLess(best.bestMatchScore, similarityScore)
          THEN [ bestLandmarkMatch |-> {landmarkDef.primaryName},
                 bestMatchScore |-> similarityScore ]
          ELSE best
      matches == Len(keywordMatches(bestLabel, landmarkDef))
      keywordScore == Frac(matches, Len(landmarkDef.keywords))
  IN  IF matches > 0 /\ FracLess(afterName.bestMatchScore, keywordScore)
        THEN [ bestLandmarkMatch |-> {landmarkDef.primaryName},
               bestMatchScore |-> keywordScore ]
        ELSE afterName

RECURSIVE fourthPassLoop(_, _, _)
fourthPassLoop(bestLabel, d, best) ==
  IF d > NumDefs
    THEN best
    ELSE Bind(fourthPassStep(best, bestLabel, landmarkDefinitions[d]),
              LAMBDA next : fourthPassLoop(bestLabel, d + 1, next))

fourthPass(bestLabel) ==
  fourthPassLoop(bestLabel, 1,
    [bestLandmarkMatch |-> {}, bestMatchScore |-> Zero])

(* fourthPass reads only the name of bestLabel: its values, computed once *)
fourthPassOf ==
  Tabulated([name \in LabelNames |->
    fourthPass([Name |-> name, Confidence |-> 0])])

(* the filter of the fourth pass calls isLandmarkRelatedLabel, hence       *)
(* normalizeLandmarkName, on every label                                   *)
fourthPassThrows(ls) ==
  \E i \in 1..Len(ls) : normalizeThrows(ls[i].Name)

(* the fourth pass returns the keyword result *)
keywordFires(ls) ==
  /\ Len(landmarkLabels(ls)) > 0
  /\ Len(nonGenericLabels(ls)) > 0
  /\ LET best == fourthPassOf[bestLabelOf(ls).Name]
     IN  best.bestLandmarkMatch # {} /\ FracLeq(Frac(3, 10), best.bestMatchScore)

(* the fourth pass returns the unknown-landmark result *)
unknownFires(ls) ==
  /\ Len(landmarkLabels(ls)) > 0
  /\ Len(nonGenericLabels(ls)) > 0
  /\ ~keywordFires(ls)
  /\ bestLabelOf(ls).Confidence >= 85
  /\ Len(landmarkLabels(ls)) >= 2

----------------------------------------------------------------------------
(* identifyLandmark, from the labels of labelResults on *)

(* no call of calculateSimilarity is under way *)
NoStrings ==
  /\ arg1 = <<>>
  /\ arg2 = <<>>
  /\ normalized1 = <<>>
  /\ normalized2 = <<>>
  /\ similarity = Zero

(* the handler has neither answered nor read the landmark table *)
NoResponse ==
  /\ statusCode = 0
  /\ lookupKeys = <<>>

Init ==
  /\ labels = <<>>
  /\ pc = "detectLabels"
  /\ result = NotReturned
  /\ NoStrings
  /\ NoResponse

(* rekognition.detectLabels resolves with the labels of the image *)
DetectLabels ==
  /\ pc = "detectLabels"
  /\ labels' \in LabelSets
  /\ pc' = "firstPass"
  /\ UNCHANGED <<result, strVars, handlerVars>>

(* the first pass looking at the alternative names before the primary ones *)
FirstPass_AlternativeFirst ==
  /\ pc = "firstPass"
  /\ \E alternatives \in {alternativeMatches(labels)} :
     \E matches \in {exactMatches(labels)} :
       IF alternatives # {}
       THEN \E label \in {labels[firstIndex(alternatives)]} :
              \E d \in {firstIndex(alternativeDefs(label))} :
                /\ result' = AlternativeResult(label, landmarkDefinitions[d])
                /\ pc' = "returned"
       ELSE IF matches # {}
         THEN /\ result' = ExactResult(labels[firstIndex(matches)])
              /\ pc' = "returned"
         ELSE /\ pc' = "secondPass"
              /\ UNCHANGED result
  /\ UNCHANGED <<labels, strVars, handlerVars>>

FirstPass ==
  /\ pc = "firstPass"
  /\ \E matches \in {exactMatches(labels)} :
       IF matches # {}
       THEN /\ result' = ExactResult(labels[firstIndex(matches)])
            /\ pc' = "returned"
       ELSE /\ pc' = "secondPass"
            /\ UNCHANGED result
  /\ UNCHANGED <<labels, strVars, handlerVars>>

SecondPass ==
  /\ pc = "secondPass"
  /\ \E matches \in {alternativeMatches(labels)} :
       IF matches # {}
       THEN \E label \in {labels[firstIndex(matches)]} :
              \E d \in {firstIndex(alternativeDefs(label))} :
                /\ result' = AlternativeResult(label, landmarkDefinitions[d])
                /\ pc' = "returned"
       ELSE /\ pc' = "thirdPass"
            /\ UNCHANGED result
  /\ UNCHANGED <<labels, strVars, handlerVars>>

ThirdPass ==
  /\ pc = "thirdPass"
  /\ IF thirdPassThrows(labels)
       THEN /\ pc' = "thrown"
            /\ UNCHANGED result
       ELSE \E best \in {thirdPass(labels)} :
                IF best.bestMatch # {}
                  THEN /\ result' = SimilarityResult(TheOne(best.bestMatch),
                                      best.bestScore, best.bestConfidence)
                       /\ pc' = "returned"
                  ELSE /\ pc' = "fourthPass"
                       /\ UNCHANGED result
  /\ UNCHANGED <<labels, strVars, handlerVars>>

(* the fourth pass sorting labelResults.Labels itself, not a filtered copy *)
FourthPass_SortsInPlace ==
  /\ pc = "fourthPass"
  /\ IF fourthPassThrows(labels)
       THEN /\ pc' = "thrown"
            /\ UNCHANGED result
       ELSE IF keywordFires(labels)
         THEN \E bestLabel \in {bestLabelOf(labels)} :
                \E best \in {fourthPassOf[bestLabel.Name]} :
                  /\ result' = KeywordResult(TheOne(best.bestLandmarkMatch),
                                 bestLabel, best.bestMatchScore)
                  /\ pc' = "returned"
         ELSE IF unknownFires(labels)
           THEN \E bestLabel \in {bestLabelOf(labels)} :
                  /\ result' = UnknownResult(bestLabel)
                  /\ pc' = "returned"
           ELSE /\ pc' = "noLandmark"
                /\ UNCHANGED result
  /\ labels' = sortByConfidence(labels, 1, <<>>)
  /\ UNCHANGED <<strVars, handlerVars>>

FourthPass ==
  /\ pc = "fourthPass"
  /\ IF fourthPassThrows(labels)
       THEN /\ pc' = "thrown"
            /\ UNCHANGED result
       ELSE IF keywordFires(labels)
         THEN \E bestLabel \in {bestLabelOf(labels)} :
                \E best \in {fourthPassOf[bestLabel.Name]} :
                  /\ result' = KeywordResult(TheOne(best.bestLandmarkMatch),
                                 bestLabel, best.bestMatchScore)
                  /\ pc' = "returned"
         ELSE IF unknownFires(labels)
           THEN \E bestLabel \in {bestLabelOf(labels)} :
                  /\ result' = UnknownResult(bestLabel)
                  /\ pc' = "returned"
           ELSE /\ pc' = "noLandmark"
                /\ UNCHANGED result
  /\ UNCHANGED <<labels, strVars, handlerVars>>

NoLandmark ==
  /\ pc = "noLandmark"
  /\ result' = NoLandmarkResult
  /\ pc' = "returned"
  /\ UNCHANGED <<labels, strVars, handlerVars>>

Next == DetectLabels \/ FirstPass \/ SecondPass \/ ThirdPass \/ FourthPass \/ NoLandmark

Spec == Init /\ [][Next]_vars

FairSpec == Spec /\ WF_vars(Next)

TypeOK ==
  /\ labels \in LabelSets
  /\ pc \in {"detectLabels", "firstPass", "secondPass", "thirdPass", "fourthPass",
             "noLandmark", "returned", "thrown"}

----------------------------------------------------------------------------
(* The registry as the claims read it *)

PrimaryNames == {landmarkDefinitions[d].primaryName : d \in 1..NumDefs}

NormalizedPrimaryNames == {normalizeLandmarkName(p) : p \in PrimaryNames}

AlternativeNames ==
  UNION {{landmarkDefinitions[d].alternativeNames[a] :
            a \in 1..Len(landmarkDefinitions[d].alternativeNames)} :
         d \in 1..NumDefs}

Returned == pc = "returned"

(* positions of the labels that equal a primary name, confidence >= 75 *)
Tier1Labels ==
  {i \in 1..Len(labels) :
     labels[i].Name \in PrimaryNames /\ labels[i].Confidence >= 75}

(* positions of the labels that equal an alternative name, confidence >= 75 *)
Tier2Labels ==
  {i \in 1..Len(labels) :
     labels[i].Name \in AlternativeNames /\ labels[i].Confidence >= 75}

(* positions of the labels whose name normalizes to a normalized primary   *)
(* name, confidence >= 75                                                  *)
NormalizedTier1Labels ==
  {i \in 1..Len(labels) :
     /\ normalizeLandmarkName(labels[i].Name) \in NormalizedPrimaryNames
     /\ labels[i].Confidence >= 75}

NormalizedAlternativeNames == {normalizeLandmarkName(a) : a \in AlternativeNames}

(* positions of the labels whose name normalizes to a normalized           *)
(* alternative name, confidence >= 75                                      *)
NormalizedTier2Labels ==
  {i \in 1..Len(labels) :
     /\ normalizeLandmarkName(labels[i].Name) \in NormalizedAlternativeNames
     /\ labels[i].Confidence >= 75}

(* the definitions an alternative name of which equals name *)
DefsWithAlternative(name) ==
  {d \in 1..NumDefs :
     \E a \in 1..Len(landmarkDefinitions[d].alternativeNames) :
       landmarkDefinitions[d].alternativeNames[a] = name}

(* the definitions an alternative name of which normalizes as name does *)
DefsWithNormalizedAlternative(name) ==
  {d \in 1..NumDefs :
     \E a \in 1..Len(landmarkDefinitions[d].alternativeNames) :
       normalizeLandmarkName(landmarkDefinitions[d].alternativeNames[a])
         = normalizeLandmarkName(name)}

----------------------------------------------------------------------------
(* C1, as stated: whenever some label of confidence >= 75 has a name that  *)
(* normalizes to a normalized primary name, the result is the exact tier   *)
(* with the canonical id of such a label's entity, whatever the other      *)
(* labels and whatever the letter case and whitespace of the label.        *)
C1_ExactForNormalizedName ==
  Returned /\ NormalizedTier1Labels # {} =>
    /\ result.matchType = {"exact"}
    /\ \E i \in NormalizedTier1Labels :
         result.landmarkName = normalizeLandmarkName(labels[i].Name)

(* C1, amended: whenever some label of confidence >= 75 has a name equal,  *)
(* character for character, to a primary name, the result is the exact     *)
(* tier built from the first such label in input order: its normalized     *)
(* name as canonical id, its name as raw name, its confidence.             *)
C1_ExactForFirstEqualName ==
  Returned /\ Tier1Labels # {} =>
    LET first == labels[CHOOSE i \in Tier1Labels : \A j \in Tier1Labels : i <= j]
    IN  /\ result.isLandmark
        /\ result.matchType = {"exact"}
        /\ result.landmarkName = normalizeLandmarkName(first.Name)
        /\ result.rawLandmarkName = {first.Name}
        /\ result.confidence = {first.Confidence}

(* an exact result built from the second label, the first one not equal   *)
(* to a primary name                                                       *)
C1_Witness ==
  /\ Returned
  /\ Len(labels) >= 2
  /\ 1 \notin Tier1Labels
  /\ 2 \in Tier1Labels
  /\ result.matchType = {"exact"}

(* C2: when the first or the second pass matches some label the result is  *)
(* not a similarity, keyword or unknown-landmark result, and when the      *)
(* first pass matches some label the result is not an alternative result,  *)
(* wherever the labels stand in the input.                                 *)
C2_TierOrder ==
  Returned =>
    /\ Tier1Labels # {} \/ Tier2Labels # {} =>
         result.matchType \notin {{"similarity"}, {"keyword"}, {"unknown"}, {}}
    /\ Tier1Labels # {} => result.matchType # {"alternative"}

(* an exact result although a label matching an alternative name precedes  *)
(* the label matching a primary name                                       *)
C2_Witness ==
  /\ Returned
  /\ Len(labels) >= 2
  /\ 1 \in Tier2Labels
  /\ 2 \in Tier1Labels
  /\ result.matchType = {"exact"}

(* C3: in every matched result the canonical id is the normalized raw name *)
C3_CanonicalIdIsNormalizedRawName ==
  Returned /\ result.isLandmark =>
    /\ result.rawLandmarkName # {}
    /\ \A raw \in result.rawLandmarkName :
         result.landmarkName = normalizeLandmarkName(raw)

(* an unknown-landmark result whose raw name is not in normalized form *)
C3_Witness ==
  /\ Returned
  /\ result.isLandmark
  /\ result.matchType = {"unknown"}
  /\ result.rawLandmarkName # {result.landmarkName}

(* C4: a result is matched exactly when it reports a match type; a matched *)
(* result reports one of the five tiers, an unmatched result none.         *)
C4_MatchedIffTier ==
  Returned =>
    /\ result.isLandmark <=> result.matchType # {}
    /\ result.isLandmark =>
         result.matchType \in {{"exact"}, {"alternative"}, {"similarity"},
                               {"keyword"}, {"unknown"}}

(* an unmatched result for labels that reached the fourth pass *)
C4_Witness ==
  /\ Returned
  /\ ~result.isLandmark
  /\ \E i \in 1..Len(labels) : labels[i].Confidence >= 85

(* C5, as stated: the unmatched result has the empty canonical id, no raw  *)
(* name, no tier and confidence 0.                                         *)
C5_EmptyCanonicalId ==
  Returned /\ ~result.isLandmark =>
    /\ result.landmarkName = <<>>
    /\ result.rawLandmarkName = {}
    /\ result.matchType = {}
    /\ result.confidence = {0}

(* C5, amended: the unmatched result has the canonical id "Unknown         *)
(* Landmark" and neither raw name, tier, confidence nor score.             *)
C5_UnknownLandmarkId ==
  Returned /\ ~result.isLandmark =>
    /\ result.landmarkName =
         <<"U","n","k","n","o","w","n"," ","L","a","n","d","m","a","r","k">>
    /\ result.rawLandmarkName = {}
    /\ result.matchType = {}
    /\ result.confidence = {}
    /\ result.similarityScore = {}
    /\ result.matchScore = {}

(* the unmatched result for a single label nothing in the registry is      *)
(* similar to                                                              *)
C5_Witness ==
  /\ Returned
  /\ ~result.isLandmark
  /\ Len(labels) = 1
  /\ labels[1].Confidence >= 85

(* C6: the result has a similarityScore exactly when its tier is           *)
(* similarity or keyword.                                                  *)
C6_ScoreIffSimilarityOrKeyword ==
  Returned =>
    (result.similarityScore # {}
       <=> result.matchType \in {{"similarity"}, {"keyword"}})

(* C8: labels with an empty or null name give the unmatched result, and    *)
(* nothing is raised.                                                      *)
C8_EmptyNamesNoMatch ==
  /\ pc # "thrown"
  /\ Returned /\ (\A i \in 1..Len(labels) : labels[i].Name \in {<<>>, Null})
       => ~result.isLandmark

(* C9: when every label has confidence below 70, or there is no label, the *)
(* result is the unmatched result.                                         *)
C9_LowConfidenceNoMatch ==
  Returned /\ (\A i \in 1..Len(labels) : labels[i].Confidence < 70) =>
    ~result.isLandmark /\ result.matchType = {}

(* the unmatched result for labels below 70 one of which equals a primary  *)
(* name                                                                    *)
C9_Witness ==
  /\ Returned
  /\ ~result.isLandmark
  /\ \A i \in 1..Len(labels) : labels[i].Confidence < 70
  /\ \E i \in 1..Len(labels) : labels[i].Name \in PrimaryNames

(* C10: every call ends by returning a result, raising nothing.            *)
C10_ReturnsOneResult ==
  <>(Returned /\ result # NotReturned /\ result.isLandmark \in BOOLEAN)

(* a call that returned although a label of confidence >= 70 has the name  *)
(* null                                                                    *)
C10_Witness ==
  /\ Returned
  /\ \E i \in 1..Len(labels) :
       labels[i].Name = Null /\ labels[i].Confidence >= 70

----------------------------------------------------------------------------
(* calculateSimilarity and normalizeLandmarkName on their own *)

MaxNameLen == 3

(* an upper-case letter, its lower-case letter, another letter, a blank *)
NameChars == {"A", "a", "b", " "}

(* every string of NameChars up to MaxNameLen characters *)
ShortNames == UNION {[1..n -> NameChars] : n \in 0..MaxNameLen}

(* the names the lambda calls calculateSimilarity with: label names, and   *)
(* the primary and alternative names of the registry                       *)
CallNames == LabelNames \cup PrimaryNames \cup AlternativeNames

(* names of several tokens once their whitespace is gone *)
TokenNames ==
  { <<"O","p","e","r","a","-","O","p","e","r","a","s">>,
    <<"O","p","e","r","a","-","H","o","u","s","e">>,
    <<"S","t","."," ","P","a","u","l">> }

StringPairs ==
  (ShortNames \X ShortNames)
    \cup ((CallNames \cup TokenNames) \X (CallNames \cup TokenNames))

StringInit ==
  /\ labels = <<>>
  /\ result = NotReturned
  /\ NoResponse
  /\ pc = "calculateSimilarity"
  /\ \E pair \in StringPairs :
       /\ arg1 = pair[1]
       /\ arg2 = pair[2]
  /\ normalized1 = <<>>
  /\ normalized2 = <<>>
  /\ similarity = Zero

(* the two calls of normalizeLandmarkName calculateSimilarity starts with *)
NormalizeStrings ==
  /\ pc = "calculateSimilarity"
  /\ IF normalizeThrows(arg1) \/ normalizeThrows(arg2)
       THEN /\ pc' = "thrown"
            /\ UNCHANGED <<normalized1, normalized2>>
       ELSE /\ normalized1' = normalizeLandmarkName(arg1)
            /\ normalized2' = normalizeLandmarkName(arg2)
            /\ pc' = "normalized"
  /\ UNCHANGED <<labels, result, arg1, arg2, similarity, handlerVars>>

(* the rest of calculateSimilarity, up to the value it returns *)
CompareStrings ==
  /\ pc = "normalized"
  /\ similarity' = calculateSimilarity(arg1, arg2)
  /\ pc' = "compared"
  /\ UNCHANGED <<labels, result, arg1, arg2, normalized1, normalized2, handlerVars>>

(* normalizeLandmarkName called with the values it returned *)
NormalizeAgain ==
  /\ pc = "normalized"
  /\ arg1' = normalized1
  /\ arg2' = normalized2
  /\ normalized1' = normalizeLandmarkName(normalized1)
  /\ normalized2' = normalizeLandmarkName(normalized2)
  /\ pc' = "normalizedAgain"
  /\ UNCHANGED <<labels, result, similarity, handlerVars>>

StringNext == NormalizeStrings \/ CompareStrings \/ NormalizeAgain

StringSpec == StringInit /\ [][StringNext]_vars

(* s without its whitespace characters *)
Letters(s) == SelectSeq(s, LAMBDA c : c \notin WhiteSpace)

(* c and d are one letter, in whatever case *)
SameLetter(c, d) ==
  c = d \/ \E k \in 1..26 : {c, d} = {UpperCase[k], LowerCase[k]}

(* s and t differ only in letter case and in whitespace *)
DifferOnlyInCaseAndWhiteSpace(s, t) ==
  /\ Len(Letters(s)) = Len(Letters(t))
  /\ \A i \in 1..Len(Letters(s)) : SameLetter(Letters(s)[i], Letters(t)[i])

----------------------------------------------------------------------------
(* C11: normalizeLandmarkName raises nothing, returns the empty string for *)
(* null and for the empty string, and returns a value it maps to itself.   *)
C11_NormalizeIdempotentTotal ==
  /\ pc # "thrown"
  /\ pc = "normalized" =>
       /\ isFalsy(arg1) => normalized1 = <<>>
       /\ isFalsy(arg2) => normalized2 = <<>>
  /\ pc = "normalizedAgain" =>
       /\ normalized1 = arg1
       /\ normalized2 = arg2

(* the second normalization of a string that had upper-case letters and    *)
(* two separate runs of whitespace                                         *)
C11_Witness ==
  /\ pc = "normalizedAgain"
  /\ arg1 = <<"e","i","f","f","e","l","t","o","w","e","r">>
  /\ normalized1 = arg1

(* C12: two strings that differ only in letter case and in whitespace,     *)
(* wherever it stands, have the same normalized value.                     *)
C12_CaseAndWhiteSpaceInsensitive ==
  pc = "normalized" /\ arg1 # Null /\ arg2 # Null
    /\ DifferOnlyInCaseAndWhiteSpace(arg1, arg2) =>
      normalized1 = normalized2

(* "Eiffel Tower" and " EIFFEL  tower" normalized to one value *)
C12_Witness ==
  /\ pc = "normalized"
  /\ arg1 = EiffelTower
  /\ arg2 = EiffelTowerVariant
  /\ normalized1 = normalized2

(* C13: calculateSimilarity returns a number from 0 to 1, and 1 when the   *)
(* two strings have the same normalized value.                             *)
C13_SimilarityRange ==
  pc = "compared" =>
    /\ FracLeq(Zero, similarity)
    /\ FracLeq(similarity, One)
    /\ normalized1 = normalized2 => similarity = One

(* similarity 1 for two different strings *)
C13_Witness ==
  /\ pc = "compared"
  /\ arg1 # arg2
  /\ normalized1 = normalized2
  /\ similarity = One

----------------------------------------------------------------------------
(* C14, as stated: when no label normalizes to a primary name and some     *)
(* label of confidence >= 75 normalizes to a normalized alternative name,  *)
(* the result is the alternative tier for the definition of the first such *)
(* label: its primary name as raw name, normalized as canonical id.        *)
C14_AlternativeForNormalizedName ==
  Returned /\ NormalizedTier1Labels = {} /\ NormalizedTier2Labels # {} =>
    LET first == labels[firstIndex(NormalizedTier2Labels)]
    IN  /\ result.matchType = {"alternative"}
        /\ \E d \in DefsWithNormalizedAlternative(first.Name) :
             /\ result.rawLandmarkName = {landmarkDefinitions[d].primaryName}
             /\ result.landmarkName =
                  normalizeLandmarkName(landmarkDefinitions[d].primaryName)

(* C14, amended: when no label equals a primary name and some label of     *)
(* confidence >= 75 equals, character for character, an alternative name,  *)
(* the result is the alternative tier for the definition of the first such *)
(* label in input order, with that label's confidence.                     *)
C14_AlternativeForFirstEqualName ==
  Returned /\ Tier1Labels = {} /\ Tier2Labels # {} =>
    LET first == labels[firstIndex(Tier2Labels)]
    IN  /\ result.isLandmark
        /\ result.matchType = {"alternative"}
        /\ result.confidence = {first.Confidence}
        /\ \E d \in DefsWithAlternative(first.Name) :
             /\ result.rawLandmarkName = {landmarkDefinitions[d].primaryName}
             /\ result.landmarkName =
                  normalizeLandmarkName(landmarkDefinitions[d].primaryName)

(* an alternative result built from the second label, the first one        *)
(* normalizing to an alternative name without being equal to one           *)
C14_Witness ==
  /\ Returned
  /\ Len(labels) >= 2
  /\ Tier1Labels = {}
  /\ 1 \in NormalizedTier2Labels \ Tier2Labels
  /\ 2 \in Tier2Labels
  /\ result.matchType = {"alternative"}
  /\ result.rawLandmarkName = {EiffelTower}

----------------------------------------------------------------------------
(* positions of the landmark-related labels of confidence >= 85 *)
LandmarkRelatedLabels ==
  {i \in 1..Len(labels) :
     isLandmarkRelatedLabelOf[labels[i].Name] /\ labels[i].Confidence >= 85}

(* positions of the labels that are landmark-related and whose name is not *)
(* a generic term                                                          *)
GenericCandidates ==
  {i \in 1..Len(labels) :
     /\ isLandmarkRelatedLabelOf[labels[i].Name]
     /\ ~arrayIncludes(genericTerms, labels[i].Name)}

(* C15: in an unknown-landmark result at least two labels are              *)
(* landmark-related with confidence >= 85, the raw name is the name of a   *)
(* label of the highest confidence among the landmark-related labels that  *)
(* are no generic term, and the raw name is landmark-related.              *)
C15_GenericIsLandmarkRelated ==
  Returned /\ result.matchType = {"unknown"} =>
    /\ Cardinality(LandmarkRelatedLabels) >= 2
    /\ \E i \in GenericCandidates :
         /\ result.rawLandmarkName = {labels[i].Name}
         /\ \A j \in GenericCandidates :
              labels[j].Confidence <= labels[i].Confidence
    /\ \A raw \in result.rawLandmarkName : isLandmarkRelatedLabelOf[raw]

----------------------------------------------------------------------------
(* identifyLandmark on labels whose Confidence is no percentage *)

(* labels Rekognition does not produce: a confidence above 100, below 0 *)
OutOfRangeLabels == {Label(EiffelTower, 150), Label(Colosseum, -5)}

AnyConfidenceLabelSets ==
  UNION {[1..n -> LabelPool \cup OutOfRangeLabels] : n \in 0..MaxLabels}

(* detectLabels resolves with labels of any confidence *)
DetectLabelsAnyConfidence ==
  /\ pc = "detectLabels"
  /\ labels' \in AnyConfidenceLabelSets
  /\ pc' = "firstPass"
  /\ UNCHANGED <<result, strVars, handlerVars>>

AnyConfidenceNext ==
  \/ DetectLabelsAnyConfidence
  \/ FirstPass
  \/ SecondPass
  \/ ThirdPass
  \/ FourthPass
  \/ NoLandmark

AnyConfidenceSpec == Init /\ [][AnyConfidenceNext]_vars

(* C16: a call with a label of confidence below 0 or above 100 returns no  *)
(* result, and no result has a confidence below 0 or above 100.            *)
C16_ConfidenceInRange ==
  Returned =>
    /\ \A i \in 1..Len(labels) :
         labels[i].Confidence >= 0 /\ labels[i].Confidence <= 100
    /\ \A c \in result.confidence : c >= 0 /\ c <= 100

----------------------------------------------------------------------------
(* exports.handler, from the value identifyLandmark returned on *)

(* if (!rekognitionResult.isLandmark) return { statusCode: 404, ... } *)
HandlerNotFound ==
  /\ pc = "returned"
  /\ ~result.isLandmark
  /\ statusCode' = 404
  /\ pc' = "responded"
  /\ UNCHANGED <<labels, result, strVars, lookupKeys>>

(* dynamodb.get with the raw name of the landmark as key *)
HandlerGet_RawName ==
  /\ pc = "returned"
  /\ result.isLandmark
  /\ lookupKeys' = Append(lookupKeys, TheOne(result.rawLandmarkName))
  /\ pc' = "respond"
  /\ UNCHANGED <<labels, result, strVars, statusCode>>

(* cloudwatch.putMetricData, whose failure is caught and passed over, then *)
(* dynamodb.get({ Key: { LandmarkId: rekognitionResult.landmarkName } }),  *)
(* whose failure is caught as well                                         *)
HandlerGet ==
  /\ pc = "returned"
  /\ result.isLandmark
  /\ lookupKeys' = Append(lookupKeys, result.landmarkName)
  /\ pc' = "respond"
  /\ UNCHANGED <<labels, result, strVars, statusCode>>

(* the response: 200, or 500 from the outer catch when translateText fails *)
HandlerRespond ==
  /\ pc = "respond"
  /\ statusCode' \in {200, 500}
  /\ pc' = "responded"
  /\ UNCHANGED <<labels, result, strVars, lookupKeys>>

HandlerNext ==
  \/ DetectLabels
  \/ FirstPass
  \/ SecondPass
  \/ ThirdPass
  \/ FourthPass
  \/ NoLandmark
  \/ HandlerNotFound
  \/ HandlerGet
  \/ HandlerRespond

HandlerSpec == Init /\ [][HandlerNext]_vars

(* C18: the handler answers 404 exactly when the result is unmatched, and  *)
(* has then read nothing from the landmark table; for a matched result it  *)
(* reads the table once, with the canonical id of the result as key.       *)
C18_NotFoundIffUnmatched ==
  /\ pc = "responded" => (statusCode = 404 <=> ~result.isLandmark)
  /\ statusCode = 404 => lookupKeys = <<>>
  /\ pc \in {"respond", "responded"} /\ result.isLandmark =>
       lookupKeys = <<result.landmarkName>>

(* an answer 200 after a lookup with a key that is not the raw name *)
C18_Witness ==
  /\ pc = "responded"
  /\ statusCode = 200
  /\ lookupKeys = <<result.landmarkName>>
  /\ result.rawLandmarkName # {result.landmarkName}

----------------------------------------------------------------------------
(* The third pass as the claims read it *)

(* the primary name and the alternative names of definition d *)
NamesOf(d) ==
  {landmarkDefinitions[d].primaryName}
    \cup {landmarkDefinitions[d].alternativeNames[a] :
            a \in 1..Len(landmarkDefinitions[d].alternativeNames)}

(* the greatest of the similarities of name with the names of definition d *)
MaxSimilarity(name, d) ==
  LET scores == {calculateSimilarity(name, n) : n \in NamesOf(d)}
  IN  CHOOSE s \in scores : \A t \in scores : FracLeq(t, s)

MaxSimilarityOf ==
  Tabulated([name \in LabelNames |->
    Tabulated([d \in 1..NumDefs |-> MaxSimilarity(name, d)])])

(* the pairs of a label position and a definition with label confidence    *)
(* >= 70 and similarity >= 0.7                                             *)
QualifyingPairs ==
  {p \in (1..Len(labels)) \X (1..NumDefs) :
     /\ labels[p[1]].Confidence >= 70
     /\ FracLeq(Frac(7, 10), MaxSimilarityOf[labels[p[1]].Name][p[2]])}

CombinedScore(p) ==
  FracMul(MaxSimilarityOf[labels[p[1]].Name][p[2]],
          Frac(labels[p[1]].Confidence, 100))

(* the result names the definition and the label confidence of pair p *)
ResultOfPair(p) ==
  /\ result.rawLandmarkName = {landmarkDefinitions[p[2]].primaryName}
  /\ result.confidence = {labels[p[1]].Confidence}

(* C19: when the first two passes match nothing, the result is a           *)
(* similarity result exactly when some pair qualifies, and it then names   *)
(* the definition and the label confidence of a qualifying pair whose      *)
(* combined score no qualifying pair exceeds.                              *)
C19_BestCombinedScore ==
  Returned /\ Tier1Labels = {} /\ Tier2Labels = {} =>
    IF QualifyingPairs = {}
      THEN result.matchType # {"similarity"}
      ELSE /\ result.matchType = {"similarity"}
           /\ \E p \in QualifyingPairs :
                /\ ResultOfPair(p)
                /\ \A q \in QualifyingPairs :
                     FracLeq(CombinedScore(q), CombinedScore(p))

(* a similarity result for a pair of a later label that beats a qualifying *)
(* pair of an earlier label                                                *)
C19_Witness ==
  /\ Returned
  /\ result.matchType = {"similarity"}
  /\ \E p \in QualifyingPairs : \E q \in QualifyingPairs :
       /\ p[1] < q[1]
       /\ FracLess(CombinedScore(p), CombinedScore(q))
       /\ ResultOfPair(q)
       /\ ~ResultOfPair(p)

(* C20: a similarity result reports as similarityScore the string          *)
(* similarity of the pair it names, which is 0.7 or more.                  *)
C20_ReportsStringSimilarity ==
  Returned /\ result.matchType = {"similarity"} =>
    /\ result.similarityScore # {}
    /\ \A s \in result.similarityScore :
         /\ FracLeq(Frac(7, 10), s)
         /\ \E p \in QualifyingPairs :
              /\ ResultOfPair(p)
              /\ s = MaxSimilarityOf[labels[p[1]].Name][p[2]]

----------------------------------------------------------------------------
(* C21: when several labels of confidence >= 75 equal a primary name, the  *)
(* result is the exact result of the first of them in input order, with    *)
(* its confidence, whatever the confidences of the others.                 *)
C21_FirstExactLabelWins ==
  Returned /\ Cardinality(Tier1Labels) >= 2 =>
    LET first == labels[CHOOSE i \in Tier1Labels : \A j \in Tier1Labels : i <= j]
    IN  /\ result.matchType = {"exact"}
        /\ result.rawLandmarkName = {first.Name}
        /\ result.confidence = {first.Confidence}

(* the exact result of the first label although a later label that equals  *)
(* another primary name has a higher confidence                            *)
C21_Witness ==
  /\ Returned
  /\ Len(labels) >= 2
  /\ 1 \in Tier1Labels
  /\ \E j \in Tier1Labels :
       /\ labels[j].Confidence > labels[1].Confidence
       /\ labels[j].Name # labels[1].Name
  /\ result.rawLandmarkName = {labels[1].Name}
  /\ result.confidence = {labels[1].Confidence}

----------------------------------------------------------------------------
(* The fourth pass as the claims read it *)

(* s has t as a substring *)
Contains(s, t) ==
  \E i \in 0..(Len(s) - Len(t)) : \A k \in 1..Len(t) : s[i + k] = t[k]

(* the keywords of definition d whose normalized form is a substring of    *)
(* the normalized name                                                     *)
KeywordsIn(name, d) ==
  {k \in 1..Len(landmarkDefinitions[d].keywords) :
     Contains(normalizeLandmarkName(name),
              normalizeLandmarkName(landmarkDefinitions[d].keywords[k]))}

(* the score of definition d for a label name: the greater of the          *)
(* similarity with the primary name and the fraction of keywords found     *)
KeywordScore(name, d) ==
  FracMax(calculateSimilarity(name, landmarkDefinitions[d].primaryName),
          Frac(Cardinality(KeywordsIn(name, d)),
               Len(landmarkDefinitions[d].keywords)))

KeywordScoreOf ==
  Tabulated([name \in LabelNames |->
    Tabulated([d \in 1..NumDefs |-> KeywordScore(name, d)])])

(* the definitions no definition scores higher than, for a label name *)
BestKeywordDefs(name) ==
  {d \in 1..NumDefs :
     \A e \in 1..NumDefs : FracLeq(KeywordScoreOf[name][e], KeywordScoreOf[name][d])}

(* positions of the labels of confidence >= 75 whose name is no generic    *)
(* term                                                                    *)
NonGenericLabels ==
  {i \in 1..Len(labels) :
     /\ ~arrayIncludes(genericTerms, labels[i].Name)
     /\ labels[i].Confidence >= 75}

(* the non-generic labels of the highest confidence *)
ScoredLabels ==
  {i \in NonGenericLabels :
     \A j \in NonGenericLabels : labels[j].Confidence <= labels[i].Confidence}

(* no earlier pass returns: no label equals a primary or alternative name  *)
(* and no pair qualifies for the third pass                                *)
ReachesFourthPass ==
  Tier1Labels = {} /\ Tier2Labels = {} /\ QualifyingPairs = {}

----------------------------------------------------------------------------
(* The word overlap of calculateSimilarity as the claims read it *)

(* the maximal runs of word characters of s, as pairs of positions *)
Runs(s) ==
  {r \in (1..Len(s)) \X (1..Len(s)) :
     /\ r[1] <= r[2]
     /\ \A k \in r[1]..r[2] : s[k] \in WordChars
     /\ r[1] = 1 \/ s[r[1] - 1] \notin WordChars
     /\ r[2] = Len(s) \/ s[r[2] + 1] \notin WordChars}

(* the runs of more than two characters *)
LongRuns(s) == {r \in Runs(s) : r[2] - r[1] + 1 > 2}

(* the long runs of s that equal, contain or are contained in a long run   *)
(* of t                                                                    *)
MatchingRuns(s, t) ==
  {r \in LongRuns(s) :
     \E q \in LongRuns(t) :
       \/ Contains(SubSeq(s, r[1], r[2]), SubSeq(t, q[1], q[2]))
       \/ Contains(SubSeq(t, q[1], q[2]), SubSeq(s, r[1], r[2]))}

(* min(0.9, 0.5 + overlap * 0.4) for overlap = matches / tokens > 0, and   *)
(* 0.0 for no match                                                        *)
OverlapValue(matches, tokens) ==
  IF matches > 0
    THEN FracMin(Frac(9, 10),
                 FracAdd(Frac(1, 2), FracMul(Frac(matches, tokens), Frac(2, 5))))
    ELSE Zero

(* the call is decided by neither equality nor containment *)
ReachesStep3 ==
  /\ pc = "compared"
  /\ normalized1 # normalized2
  /\ ~Contains(normalized1, normalized2)
  /\ ~Contains(normalized2, normalized1)

(* C23, as stated: tokens of one or two characters are not counted: two    *)
(* strings with at most one longer token each score 0.0, and otherwise the *)
(* overlap is the matches over the greater number of longer tokens.        *)
C23_ShortTokensDiscarded ==
  ReachesStep3 =>
    LET tokens1 == Cardinality(LongRuns(normalized1))
        tokens2 == Cardinality(LongRuns(normalized2))
    IN  IF tokens1 <= 1 /\ tokens2 <= 1
          THEN similarity = Zero
          ELSE similarity =
                 OverlapValue(Cardinality(MatchingRuns(normalized1, normalized2)),
                              Max(tokens1, tokens2))

(* C23, amended: every token counts in the test for more than one token    *)
(* and in the denominator; tokens of one or two characters are only left   *)
(* out of the matching.                                                    *)
C23_ShortTokensCounted ==
  ReachesStep3 =>
    LET tokens1 == Cardinality(Runs(normalized1))
        tokens2 == Cardinality(Runs(normalized2))
    IN  IF tokens1 <= 1 /\ tokens2 <= 1
          THEN similarity = Zero
          ELSE similarity =
                 OverlapValue(Cardinality(MatchingRuns(normalized1, normalized2)),
                              Max(tokens1, tokens2))

(* "Mt. Fuji" against "Mount Fuji": one token of two characters and one    *)
(* longer token against a single token, scored 0.7                         *)
C23_Witness ==
  /\ ReachesStep3
  /\ arg1 = MtFuji
  /\ Cardinality(Runs(normalized1)) = 2
  /\ Cardinality(LongRuns(normalized1)) = 1
  /\ Cardinality(Runs(normalized2)) = 1
  /\ similarity = Frac(7, 10)

----------------------------------------------------------------------------
(* the call is decided by containment: the normalized strings differ and   *)
(* one is a substring of the other                                         *)
DecidedByContainment ==
  /\ pc = "compared"
  /\ normalized1 # normalized2
  /\ Contains(normalized1, normalized2) \/ Contains(normalized2, normalized1)

(* C24: when the normalized strings differ and one contains the other, the *)
(* similarity is the greater of 0.7 and shorter length / longer length, at *)
(* least 0.7 and below 1, also when one of them is empty.                  *)
C24_ContainmentScore ==
  DecidedByContainment =>
    LET shorter == IF Len(normalized1) <= Len(normalized2)
                     THEN Len(normalized1) ELSE Len(normalized2)
        longer == IF Len(normalized1) <= Len(normalized2)
                    THEN Len(normalized2) ELSE Len(normalized1)
    IN  /\ similarity = FracMax(Frac(7, 10), Frac(shorter, longer))
        /\ FracLeq(Frac(7, 10), similarity)
        /\ FracLess(similarity, One)

(* 0.7 for the empty string against a name *)
C24_Witness ==
  /\ DecidedByContainment
  /\ normalized1 = <<>>
  /\ arg2 = EiffelTower
  /\ similarity = Frac(7, 10)

(* the call is decided by equality of the normalized strings *)
DecidedByEquality == pc = "compared" /\ normalized1 = normalized2

(* C25: when equality or containment of the normalized strings decides,   *)
(* the similarity is the same with the arguments exchanged.                *)
C25_SymmetricUnlessOverlap ==
  DecidedByEquality \/ DecidedByContainment =>
    similarity = calculateSimilarity(arg2, arg1)

(* two strings, neither containing the other, whose similarity changes     *)
(* with the order of the arguments                                         *)
C25_Witness ==
  /\ ReachesStep3
  /\ similarity # calculateSimilarity(arg2, arg1)

----------------------------------------------------------------------------
(* pair p comes before pair q: an earlier label, or the same label and an *)
(* earlier definition                                                      *)
PairBefore(p, q) == p[1] < q[1] \/ (p[1] = q[1] /\ p[2] <= q[2])

(* C26: a keyword or unknown-landmark result is built from the earliest of *)
(* the non-generic labels of the highest confidence, and a similarity      *)
(* result from the pair of the earliest label, then the earliest           *)
(* definition, among the pairs of the highest combined score.              *)
C26_TiesByFirstOccurrence ==
  /\ Returned /\ result.matchType \in {{"keyword"}, {"unknown"}} =>
       LET scored == labels[CHOOSE i \in ScoredLabels : \A j \in ScoredLabels : i <= j]
       IN  /\ result.confidence = {scored.Confidence}
           /\ result.matchType = {"unknown"} =>
                result.rawLandmarkName = {scored.Name}
           /\ result.matchType = {"keyword"} =>
                \E d \in BestKeywordDefs(scored.Name) :
                  /\ result.rawLandmarkName = {landmarkDefinitions[d].primaryName}
                  /\ result.matchScore = {KeywordScoreOf[scored.Name][d]}
  /\ Returned /\ result.matchType = {"similarity"} =>
       \E p \in QualifyingPairs :
         /\ ResultOfPair(p)
         /\ \A q \in QualifyingPairs :
              \/ FracLess(CombinedScore(q), CombinedScore(p))
              \/ CombinedScore(q) = CombinedScore(p) /\ PairBefore(p, q)

(* an unknown-landmark result named after the first of two labels of the   *)
(* highest confidence with different names                                 *)
C26_Witness ==
  /\ Returned
  /\ result.matchType = {"unknown"}
  /\ \E i \in ScoredLabels : \E j \in ScoredLabels :
       /\ i < j
       /\ labels[i].Name # labels[j].Name
       /\ result.rawLandmarkName = {labels[i].Name}

----------------------------------------------------------------------------
(* C27: once detectLabels has resolved, no step of the call changes the    *)
(* labels, neither their contents nor their order.                         *)
C27_LabelsUnchanged ==
  [][pc # "detectLabels" => labels' = labels]_vars

(* a result of the fourth pass for labels that are not in descending order *)
(* of confidence                                                           *)
C27_Witness ==
  /\ Returned
  /\ result.matchType \in {{"keyword"}, {"unknown"}}
  /\ \E i \in 1..Len(labels) : \E j \in 1..Len(labels) :
       i < j /\ labels[i].Confidence < labels[j].Confidence

----------------------------------------------------------------------------
(* C28: when no label of confidence >= 75 equals a primary or alternative  *)
(* name, no pair qualifies for the third pass and no label is              *)
(* landmark-related with confidence >= 85, the result is the unmatched     *)
(* result, however confident the labels are.                               *)
C28_NoMatchWithoutCandidates ==
  Returned /\ ReachesFourthPass /\ LandmarkRelatedLabels = {} =>
    /\ ~result.isLandmark
    /\ result = NoLandmarkResult

(* the unmatched result for labels one of which has confidence 99 *)
C28_Witness ==
  /\ Returned
  /\ ReachesFourthPass
  /\ LandmarkRelatedLabels = {}
  /\ \E i \in 1..Len(labels) : labels[i].Name = Dog /\ labels[i].Confidence = 99
  /\ result = NoLandmarkResult

(* the least confidence a tier accepts *)
Threshold(matchType) ==
  IF matchType = {"similarity"} THEN 70
  ELSE IF matchType = {"unknown"} THEN 85
  ELSE 75

(* C29: the confidence of a matched result is the confidence of some label *)
(* and at least the threshold of its tier: 75 for exact, alternative and   *)
(* keyword, 70 for similarity, 85 for unknown landmark; so at least 70.    *)
C29_ConfidenceOfALabel ==
  Returned /\ result.isLandmark =>
    /\ result.confidence # {}
    /\ \A c \in result.confidence :
         /\ \E i \in 1..Len(labels) : labels[i].Confidence = c
         /\ c >= Threshold(result.matchType)
         /\ c >= 70

(* a keyword result at the threshold, beside a label of higher confidence *)
C29_Witness ==
  /\ Returned
  /\ result.matchType = {"keyword"}
  /\ result.confidence = {75}
  /\ \E i \in 1..Len(labels) : labels[i].Confidence > 75

(* the name normalizes to a string that equals, contains or is contained   *)
(* in the normalized form of a primary or alternative name                 *)
TouchesRegistry(name) ==
  \E n \in PrimaryNames \cup AlternativeNames :
    \/ Contains(normalizeLandmarkName(name), normalizeLandmarkName(n))
    \/ Contains(normalizeLandmarkName(n), normalizeLandmarkName(name))

TouchesRegistryOf == Tabulated([name \in LabelNames |-> TouchesRegistry(name)])

(* C30: when some label of confidence >= 70 has a normalized name that     *)
(* equals, contains or is contained in a normalized primary or alternative *)
(* name, the result is an exact, alternative or similarity result.         *)
C30_ContainmentMatches ==
  Returned /\ (\E i \in 1..Len(labels) :
                 labels[i].Confidence >= 70 /\ TouchesRegistryOf[labels[i].Name]) =>
    /\ result.isLandmark
    /\ result.matchType \in {{"exact"}, {"alternative"}, {"similarity"}}

(* a similarity result for a label that only an alternative name contains  *)
(* or is contained in                                                      *)
C30_Witness ==
  /\ Returned
  /\ result.matchType = {"similarity"}
  /\ Len(labels) = 1
  /\ TouchesRegistryOf[labels[1].Name]
  /\ \A p \in PrimaryNames :
       /\ ~Contains(normalizeLandmarkName(labels[1].Name), normalizeLandmarkName(p))
       /\ ~Contains(normalizeLandmarkName(p), normalizeLandmarkName(labels[1].Name))

====
